---- MODULE Spec2Model ----
(***************************************************************************)
(* LeeSpork's Command System: the command registry (CommandSystem, its     *)
(* CommandHandler records and alias table) and the CommandMessage it       *)
(* dispatches.  The repository ships two versions of the library:          *)
(*   command_system.py            version 1.215.05 (raises a typed error)  *)
(*   LeeSpork_Command_System.py   the 2020/21 version it was updated from  *)
(* A program imports one of them; the variable `module` says which.        *)
(*                                                                         *)
(* A text is a sequence of one-character strings.  The heap of a program   *)
(* is the record [handlers, _cmd_objs, _cmd_names]; every method is an     *)
(* operator from a heap (and its arguments) to the heap it leaves behind,  *)
(* the exception it raised and the value it returned.                      *)
(***************************************************************************)
EXTENDS Integers, Sequences, FiniteSets, TLC

\* ------------------------------------------------------------------ bounds
MaxObjs == 2        \* CommandHandler objects alive in one program
MaxAliases == 2     \* length of an `aliases` argument
MaxLen == 5         \* length of a text a message is made of

\* ------------------------------------------------------------------ inputs
Modules == {"command_system", "LeeSpork_Command_System"}
Systems == {"S1", "S2"}          \* two CommandSystem() instances
LeeSpork_Systems == {"S1"}       \* the 2020 program uses one, my_cmd_sys
ListingVars == {"all_cmds", "output"}   \* variables of a caller that hold a listing

TokA == <<"a">>
TokB == <<"b">>
TokC == <<"c">>
AliasTokens == {TokB, TokC}
MessageTexts == {<<"c">>, <<"a", " ", "b">>, <<" ">>}
Descriptions == {"(No description)"}

\* what a message may be made of: any text of letters, blanks and tabs, and
\* keyword arguments
Chars == {"a", "b", " ", "\t"}
ParamKeys == {"user", "game"}
ParamValues == {"u1"}
Defaults == {"None", "d"}
NoParams == <<>>
SeqsUpTo(S, n) == UNION {[1..k -> S] : k \in 0..n}
Texts == SeqsUpTo(Chars, MaxLen)
ParamDicts == UNION {[K -> ParamValues] : K \in SUBSET ParamKeys}

\* the commands a caller may register: a handler function and its syntax
Commands ==
    {<<"f", <<"a">>>>, <<"example_help_command_function", <<"a">>>>,
     <<"raises_KeyError", <<" ", "b", " ", "a">>>>}
LeeSpork_Commands ==
    {<<"f", <<"a">>>>, <<"raises_UnknownCommandError", <<"a">>>>,
     <<"raises_KeyError", <<" ", "b", " ", "a">>>>}

\* ------------------------------------------------------------------ values
Exc(type, arg) == [type |-> type, arg |-> arg]
NoExc == Exc("None", <<>>)
Value(tag, of, obj) == [tag |-> tag, of |-> of, obj |-> obj]
PyNone == Value("None", "", 0)
Reply(by, kind, arg) == [by |-> by, kind |-> kind, arg |-> arg]

\* ------------------------------------------------------------------ str.split
IsSpace(c) == c \in {" ", "\t"}

RECURSIVE lstrip(_)
lstrip(s) == IF s # <<>> /\ IsSpace(Head(s)) THEN lstrip(Tail(s)) ELSE s

RECURSIVE first_word(_)
first_word(s) ==
    IF s = <<>> \/ IsSpace(Head(s)) THEN <<>> ELSE <<Head(s)>> \o first_word(Tail(s))

\* text.split(): the whitespace-delimited tokens of text
RECURSIVE split(_)
split(s) ==
    LET t == lstrip(s)
    IN  IF t = <<>> THEN <<>>
        ELSE LET w == first_word(t)
             IN  <<w>> \o split(SubSeq(t, Len(w) + 1, Len(t)))

\* syntax.split(maxsplit=1): the first token and the rest of the text
split_maxsplit_1(s) ==
    LET t == lstrip(s)
    IN  IF t = <<>> THEN <<>>
        ELSE LET w == first_word(t)
                 r == lstrip(SubSeq(t, Len(w) + 1, Len(t)))
             IN  IF r = <<>> THEN <<w>> ELSE <<w, r>>

\* ------------------------------------------------------------------ state
VARIABLES
    module,       \* the version of the library the program imported
    handlers,     \* the CommandHandler objects, by identity 1..Len(handlers)
    _cmd_objs,    \* per system: dict of every name and alias -> handler
                  \*   (LeeSpork_Command_System.py calls this dict _cmd_names)
    _cmd_names,   \* per system: set of command names, aliases not included
                  \*   (LeeSpork_Command_System.py calls this set _cmds)
    message,      \* the CommandMessage the program holds, if any
    input,        \* the text and keyword arguments the next message is made of
    listings,     \* the sets get_all_command_names returned, by the caller's variable
    last          \* the last call: its kind, what it raised and returned, and for a
                  \*   lookup or a dispatch the system it was made on

vars == <<module, handlers, _cmd_objs, _cmd_names, message, input, listings, last>>

Heap == [handlers |-> handlers, _cmd_objs |-> _cmd_objs, _cmd_names |-> _cmd_names]
Outcome(h, exc, value) == [heap |-> h, exc |-> exc, value |-> value]

\* ------------------------------------------------------------------ CommandMessage
NoMessage == [cls |-> "None"]

\* CommandMessage taking the words after the first blank for the arguments,
\* as text.split(" ") would
CommandMessage_split_on_blank(text, params) ==
    LET tokens == split(text)
    IN  IF tokens = <<>>
        THEN [exc |-> Exc("ValueError", <<>>), message |-> NoMessage]
        ELSE [exc |-> NoExc,
              message |-> [cls |-> "CommandMessage", text |-> text, params |-> params,
                           cmd_name |-> Head(tokens),
                           args_list |-> IF IsSpace(text[1]) THEN tokens ELSE Tail(tokens),
                           last_command_system |-> "None"]]

\* CommandMessage(text): `self.cmd_name, *self.args_list = self.text.split()`
\* raises ValueError when the text has no token.
CommandMessage(text, params) ==
    LET tokens == split(text)
    IN  IF tokens = <<>>
        THEN [exc |-> Exc("ValueError", <<>>), message |-> NoMessage]
        ELSE [exc |-> NoExc,
              message |-> [cls |-> "CommandMessage", text |-> text, params |-> params,
                           cmd_name |-> Head(tokens), args_list |-> Tail(tokens),
                           last_command_system |-> "None"]]

\* the 2020 class: no last_command_system attribute
LeeSpork_CommandMessage(text) ==
    LET tokens == split(text)
    IN  IF tokens = <<>>
        THEN [exc |-> Exc("ValueError", <<>>), message |-> NoMessage]
        ELSE [exc |-> NoExc,
              message |-> [cls |-> "CommandMessage", text |-> text, user |-> "None",
                           cmd_name |-> Head(tokens), args_list |-> Tail(tokens)]]

get_text(msg) == msg.text
get_cmd_name(msg) == msg.cmd_name
get_args_list(msg) == msg.args_list

\* self.text[ len(self.cmd_name) +1 : ]
get_args_str(msg) == SubSeq(msg.text, Len(msg.cmd_name) + 2, Len(msg.text))

\* dict.get(*args, **kwargs): the method takes positional arguments only
dict_get(d, args, kwargs) ==
    IF DOMAIN kwargs # {}
    THEN [exc |-> Exc("TypeError", <<"dict.get() takes no keyword arguments">>),
          value |-> PyNone]
    ELSE IF args[1] \in DOMAIN d
    THEN [exc |-> NoExc, value |-> Value("param", d[args[1]], 0)]
    ELSE [exc |-> NoExc,
          value |-> IF Len(args) > 1 THEN Value("param", args[2], 0) ELSE PyNone]

\* self.params.get(param, default=default)
get_param(msg, param, default) ==
    dict_get(msg.params, <<param>>, [default |-> default])

\* a 2020 message has no such attribute: the call raises AttributeError
get_last_command_system(msg) ==
    IF "last_command_system" \in DOMAIN msg THEN msg.last_command_system
    ELSE "AttributeError"

\* set_last_command_system keeping the system among the params as well
set_last_command_system_in_params(msg, new_current_system) ==
    [msg EXCEPT !.last_command_system = new_current_system,
                !.params = [last_command_system |-> new_current_system]]

set_last_command_system(msg, new_current_system) ==
    [msg EXCEPT !.last_command_system = new_current_system]

\* ------------------------------------------------------------------ aliases
\* _add_alias without the check, binding the alias anew
_add_alias_rebinds(h, self, cmd_obj, new_alias) ==
    Outcome([h EXCEPT !._cmd_objs[self] =
                 [k \in DOMAIN @ \cup {new_alias} |->
                     IF k = new_alias THEN cmd_obj ELSE @[k]]],
            NoExc, PyNone)

\* _add_alias on a dict that is an attribute of the class, shared by every
\* CommandSystem
_add_alias_shared_dict(h, self, cmd_obj, new_alias) ==
    IF new_alias \in DOMAIN h._cmd_objs[self]
    THEN Outcome(h, Exc("NameError", <<"CommandAlreadyExistsError">>), PyNone)
    ELSE Outcome([h EXCEPT !._cmd_objs =
                     [s \in DOMAIN @ |->
                         [k \in DOMAIN @[s] \cup {new_alias} |->
                             IF k = new_alias THEN cmd_obj ELSE @[s][k]]]],
                 NoExc, PyNone)

\* CommandSystem._add_alias: the same code in both versions
_add_alias(h, self, cmd_obj, new_alias) ==
    IF new_alias \in DOMAIN h._cmd_objs[self]
    THEN \* `raise CommandAlreadyExistsError(...)`: the class is an attribute of
         \* CommandSystem, not a name of the method's scope
         Outcome(h, Exc("NameError", <<"CommandAlreadyExistsError">>), PyNone)
    ELSE Outcome([h EXCEPT !._cmd_objs[self] = @ @@ (new_alias :> cmd_obj)],
                 NoExc, PyNone)

\* CommandHandler.add_alias: the same code in both versions
add_alias(h, cmd_obj, alias) ==
    LET r == _add_alias(h, h.handlers[cmd_obj].parent_system, cmd_obj, alias)
    IN  IF r.exc # NoExc THEN r
        ELSE Outcome([r.heap EXCEPT !.handlers[cmd_obj].aliases = Append(@, alias)],
                     NoExc, Value("handler", "", cmd_obj))

\* the loop of CommandHandler.add_aliases (LeeSpork_Command_System.py only)
RECURSIVE add_aliases_loop(_, _, _)
add_aliases_loop(h, cmd_obj, aliases) ==
    IF aliases = <<>> THEN Outcome(h, NoExc, PyNone)
    ELSE LET r == _add_alias(h, h.handlers[cmd_obj].parent_system, cmd_obj,
                             Head(aliases))
         IN  IF r.exc # NoExc THEN r
             ELSE add_aliases_loop(r.heap, cmd_obj, Tail(aliases))

add_aliases(h, cmd_obj, aliases) ==
    LET r == add_aliases_loop(h, cmd_obj, aliases)
    IN  IF r.exc # NoExc THEN r
        ELSE Outcome([r.heap EXCEPT !.handlers[cmd_obj].aliases = @ \o aliases],
                     NoExc, Value("handler", "", cmd_obj))

\* ------------------------------------------------------------------ add_command
NewHandler(sys, command_name, function, syntax, desc) ==
    [parent_system |-> sys, name |-> command_name, function |-> function,
     syntax |-> syntax, aliases |-> <<>>, description |-> desc]

\* `for alias in aliases: obj.add_alias(alias)`
RECURSIVE add_command_loop(_, _, _)
add_command_loop(h, obj, aliases) ==
    IF aliases = <<>> THEN Outcome(h, NoExc, PyNone)
    ELSE LET r == add_alias(h, obj, Head(aliases))
         IN  IF r.exc # NoExc THEN r
             ELSE add_command_loop(r.heap, obj, Tail(aliases))

\* add_command with `sys._cmd_names.add(command_name)` moved up, before the
\* name is registered
add_command_names_first(h, sys, function, syntax, aliases, desc) ==
    LET parts == split_maxsplit_1(syntax)
    IN  IF parts = <<>> THEN Outcome(h, Exc("IndexError", <<>>), PyNone)
        ELSE
        LET command_name == parts[1]
            obj == Len(h.handlers) + 1
            hn == [h EXCEPT !._cmd_names[sys] = @ \cup {command_name}]
            h0 == [hn EXCEPT !.handlers =
                      Append(@, NewHandler(sys, command_name, function, syntax, desc))]
            r1 == add_alias(h0, obj, command_name)
        IN  IF r1.exc # NoExc THEN Outcome(hn, r1.exc, PyNone)
            ELSE
            LET r2 == add_command_loop(r1.heap, obj, aliases)
            IN  IF r2.exc # NoExc THEN r2
                ELSE Outcome(r2.heap, NoExc, Value("handler", "", obj))

\* add_command registering the aliases before the name
add_command_aliases_first(h, sys, function, syntax, aliases, desc) ==
    LET parts == split_maxsplit_1(syntax)
    IN  IF parts = <<>> THEN Outcome(h, Exc("IndexError", <<>>), PyNone)
        ELSE
        LET command_name == parts[1]
            obj == Len(h.handlers) + 1
            h0 == [h EXCEPT !.handlers =
                      Append(@, NewHandler(sys, command_name, function, syntax, desc))]
            r1 == add_command_loop(h0, obj, aliases)
        IN  IF r1.exc # NoExc
            THEN IF h0.handlers[obj] = r1.heap.handlers[obj]
                 THEN Outcome(h, r1.exc, PyNone) ELSE r1
            ELSE
            LET r2 == add_alias(r1.heap, obj, command_name)
            IN  IF r2.exc # NoExc
                THEN IF aliases = <<>> THEN Outcome(h, r2.exc, PyNone) ELSE r2
                ELSE Outcome([r2.heap EXCEPT !._cmd_names[sys] = @ \cup {command_name}],
                             NoExc, Value("handler", "", obj))

\* add_command registering only the first of the aliases
add_command_first_alias_only(h, sys, function, syntax, aliases, desc) ==
    LET parts == split_maxsplit_1(syntax)
    IN  IF parts = <<>> THEN Outcome(h, Exc("IndexError", <<>>), PyNone)
        ELSE
        LET command_name == parts[1]
            obj == Len(h.handlers) + 1
            h0 == [h EXCEPT !.handlers =
                      Append(@, NewHandler(sys, command_name, function, syntax, desc))]
            r1 == add_alias(h0, obj, command_name)
        IN  IF r1.exc # NoExc THEN Outcome(h, r1.exc, PyNone)
            ELSE
            LET r2 == add_command_loop(r1.heap, obj,
                                       IF aliases = <<>> THEN <<>> ELSE <<Head(aliases)>>)
            IN  IF r2.exc # NoExc THEN r2
                ELSE Outcome([r2.heap EXCEPT !._cmd_names[sys] = @ \cup {command_name}],
                             NoExc, Value("handler", "", obj))

\* CommandSystem.add_command of command_system.py.  A handler that no key of
\* the table refers to when the call raises is garbage and leaves the heap.
add_command(h, sys, function, syntax, aliases, desc) ==
    LET parts == split_maxsplit_1(syntax)
    IN  IF parts = <<>> THEN Outcome(h, Exc("IndexError", <<>>), PyNone)
        ELSE
        LET command_name == parts[1]
            obj == Len(h.handlers) + 1
            h0 == [h EXCEPT !.handlers =
                      Append(@, NewHandler(sys, command_name, function, syntax, desc))]
            r1 == add_alias(h0, obj, command_name)
        IN  IF r1.exc # NoExc THEN Outcome(h, r1.exc, PyNone)
            ELSE
            LET r2 == add_command_loop(r1.heap, obj, aliases)
            IN  IF r2.exc # NoExc THEN r2
                ELSE Outcome([r2.heap EXCEPT !._cmd_names[sys] = @ \cup {command_name}],
                             NoExc, Value("handler", "", obj))

\* CommandSystem.add_command of LeeSpork_Command_System.py (no aliases parameter)
LeeSpork_add_command(h, sys, syntax, function, description) ==
    LET parts == split_maxsplit_1(syntax)
    IN  IF parts = <<>> THEN Outcome(h, Exc("IndexError", <<>>), PyNone)
        ELSE
        LET command_name == parts[1]
            obj == Len(h.handlers) + 1
            h0 == [h EXCEPT !.handlers =
                      Append(@, NewHandler(sys, command_name, function, syntax,
                                           description))]
            r1 == add_alias(h0, obj, command_name)
        IN  IF r1.exc # NoExc THEN Outcome(h, r1.exc, PyNone)
            ELSE Outcome([r1.heap EXCEPT !._cmd_names[sys] = @ \cup {command_name}],
                         NoExc, Value("handler", "", obj))

\* CommandSystem.get_command (LeeSpork_Command_System.py only)
get_command(h, command_system, command_name_or_alias) ==
    IF command_name_or_alias \in DOMAIN h._cmd_objs[command_system]
    THEN Outcome(h, NoExc,
                 Value("handler", "", h._cmd_objs[command_system][command_name_or_alias]))
    ELSE Outcome(h, Exc("KeyError", command_name_or_alias), PyNone)

\* ------------------------------------------------------------------ listing
\* A Python set is an object: a variable holds a reference to it.  A listing
\* is either a set object of its own, with its items, or the very set object
\* that is the _cmds attribute of a system.
NoListing == [of |-> "None", items |-> {}]
set_copy(items) == [of |-> "own", items |-> items]
set_ref(self) == [of |-> self, items |-> {}]

\* the items of the set object a listing refers to
set_items(h, listing) ==
    IF listing.of \in Systems THEN h._cmd_names[listing.of] ELSE listing.items

\* get_all_command_names handing out the set itself
get_all_command_names_no_copy(h, self) ==
    Outcome(h, NoExc, set_ref(self))

\* CommandSystem.get_all_command_names (LeeSpork_Command_System.py only):
\* `return self._cmds.copy()`
get_all_command_names(h, self) ==
    Outcome(h, NoExc, set_copy(h._cmd_names[self]))

\* s.add(x) / s.discard(x) on the set object a listing refers to: the heap and
\* the listing afterwards
set_update(h, listing, items) ==
    IF listing.of \in Systems
    THEN [heap |-> [h EXCEPT !._cmd_names[listing.of] = items], listing |-> listing]
    ELSE [heap |-> h, listing |-> [listing EXCEPT !.items = items]]
set_add(h, listing, x) == set_update(h, listing, set_items(h, listing) \cup {x})
set_discard(h, listing, x) == set_update(h, listing, set_items(h, listing) \ {x})

\* ------------------------------------------------------------------ handler functions
Called(exc, value, replies) == [exc |-> exc, value |-> value, replies |-> replies]

\* the example help command of command_system.py
example_help_command_function(msg, h) ==
    LET cmd_sys == get_last_command_system(msg)
        args == get_args_str(msg)
    IN  IF cmd_sys \notin Systems THEN Called(Exc("AttributeError", <<>>), PyNone, <<>>)
        ELSE IF args = <<>>
        THEN Called(NoExc, PyNone,
                    <<Reply("handler", "Commands:", h._cmd_names[cmd_sys])>>)
        ELSE IF args \notin DOMAIN h._cmd_objs[cmd_sys]
        THEN Called(Exc("UnknownCommandError", args), PyNone, <<>>)
        ELSE Called(NoExc, PyNone, <<Reply("handler", "Help for", args)>>)

\* command_function(command_message_handler_object): what the registered
\* function does with the message.  f returns a value of its own; the other
\* two raise from inside the handler.
Call(function, msg, h) ==
    CASE function = "f" -> Called(NoExc, Value("result", "f", 0), <<>>)
      [] function = "raises_KeyError" ->
            Called(Exc("KeyError", <<"k">>), PyNone, <<>>)
      [] function = "raises_UnknownCommandError" ->
            Called(Exc("UnknownCommandError", <<"z">>), PyNone, <<>>)
      [] function = "example_help_command_function" ->
            example_help_command_function(msg, h)

\* ------------------------------------------------------------------ run_command
Ran(msg, exc, value, invoked, replies) ==
    [message |-> msg, exc |-> exc, value |-> value, invoked |-> invoked,
     replies |-> replies, events |-> <<>>]

\* what run_command does to the message and with the handler, in order
Event(ev, arg) == [ev |-> ev, arg |-> arg]

\* run_command recording the system after the handler has run
run_command_sets_last_system_late(h, command_system, command_message_handler_object) ==
    LET msg0 == command_message_handler_object
        msg == set_last_command_system(msg0, command_system)
        command_name == get_cmd_name(msg)
    IN  IF command_name \notin DOMAIN h._cmd_objs[command_system]
        THEN [Ran(msg, Exc("UnknownCommandError", command_name), PyNone, <<>>, <<>>)
                 EXCEPT !.events = <<Event("set_last_command_system", command_system)>>]
        ELSE LET command_function ==
                     h.handlers[h._cmd_objs[command_system][command_name]].function
                 c == Call(command_function, msg0, h)
             IN  [Ran(msg, c.exc, c.value,
                      <<[function |-> command_function, message |-> msg0]>>, c.replies)
                     EXCEPT !.events = <<Event("call", command_function),
                                         Event("set_last_command_system", command_system)>>]

\* run_command without the `return` in front of the call
run_command_drops_result(h, command_system, command_message_handler_object) ==
    LET msg == set_last_command_system(command_message_handler_object, command_system)
        command_name == get_cmd_name(msg)
    IN  IF command_name \notin DOMAIN h._cmd_objs[command_system]
        THEN Ran(msg, Exc("UnknownCommandError", command_name), PyNone, <<>>, <<>>)
        ELSE LET command_function ==
                     h.handlers[h._cmd_objs[command_system][command_name]].function
                 c == Call(command_function, msg, h)
             IN  Ran(msg, c.exc, PyNone,
                     <<[function |-> command_function, message |-> msg]>>, c.replies)

\* run_command with the call moved into the `try`: a KeyError of the handler
\* is then taken for a missing command
run_command_call_in_try(h, command_system, command_message_handler_object) ==
    LET msg == set_last_command_system(command_message_handler_object, command_system)
        command_name == get_cmd_name(msg)
    IN  IF command_name \notin DOMAIN h._cmd_objs[command_system]
        THEN Ran(msg, Exc("UnknownCommandError", command_name), PyNone, <<>>, <<>>)
        ELSE LET command_function ==
                     h.handlers[h._cmd_objs[command_system][command_name]].function
                 c == Call(command_function, msg, h)
             IN  Ran(msg,
                     IF c.exc.type = "KeyError"
                     THEN Exc("UnknownCommandError", command_name) ELSE c.exc,
                     c.value,
                     <<[function |-> command_function, message |-> msg]>>, c.replies)

\* CommandSystem.run_command of command_system.py
run_command(h, command_system, command_message_handler_object) ==
    LET msg == set_last_command_system(command_message_handler_object, command_system)
        command_name == get_cmd_name(msg)
    IN  IF command_name \notin DOMAIN h._cmd_objs[command_system]
        THEN [Ran(msg, Exc("UnknownCommandError", command_name), PyNone, <<>>, <<>>)
                 EXCEPT !.events = <<Event("set_last_command_system", command_system)>>]
        ELSE LET command_function ==
                     h.handlers[h._cmd_objs[command_system][command_name]].function
                 c == Call(command_function, msg, h)
             IN  [Ran(msg, c.exc, c.value,
                      <<[function |-> command_function, message |-> msg]>>, c.replies)
                     EXCEPT !.events = <<Event("set_last_command_system", command_system),
                                         Event("call", command_function)>>]

\* CommandSystem.run_command of LeeSpork_Command_System.py
LeeSpork_run_command(h, command_system, command_message_handler_object) ==
    LET msg == command_message_handler_object
        command_name == get_cmd_name(msg)
        g == get_command(h, command_system, command_name)
    IN  IF g.exc.type = "KeyError"
        THEN Ran(msg, NoExc, PyNone, <<>>,
                 <<Reply("registry", "Error: Unknown command", command_name)>>)
        ELSE LET command_function == h.handlers[g.value.obj].function
                 c == Call(command_function, msg, h)
             IN  [Ran(msg, c.exc, c.value,
                      <<[function |-> command_function, message |-> msg]>>, c.replies)
                     EXCEPT !.events = <<Event("call", command_function)>>]

\* ------------------------------------------------------------------ actions
Last(op, sys, exc, value, invoked, replies) ==
    [op |-> op, sys |-> sys, exc |-> exc, value |-> value, invoked |-> invoked,
     replies |-> replies, events |-> <<>>]

Store(h) ==
    /\ handlers' = h.handlers
    /\ _cmd_objs' = h._cmd_objs
    /\ _cmd_names' = h._cmd_names

Init ==
    /\ module \in Modules
    /\ handlers = <<>>
    /\ _cmd_objs = [s \in Systems |-> <<>>]
    /\ _cmd_names = [s \in Systems |-> {}]
    /\ message = NoMessage
    /\ input = [text |-> <<>>, params |-> NoParams]
    /\ listings = [v \in ListingVars |-> NoListing]
    /\ last = Last("init", "", NoExc, PyNone, <<>>, <<>>)

\* input_object = CommandMessage(text); a failed construction leaves the
\* program with the message it had
NewMessage(text) ==
    /\ module = "command_system"
    /\ LET r == CommandMessage(text, NoParams)
       IN  /\ message' = IF r.exc = NoExc THEN r.message ELSE message
           /\ last' = Last("CommandMessage", "", r.exc, PyNone, <<>>, <<>>)
    /\ UNCHANGED <<module, handlers, _cmd_objs, _cmd_names, input, listings>>

LeeSpork_NewMessage(text) ==
    /\ module = "LeeSpork_Command_System"
    /\ LET r == LeeSpork_CommandMessage(text)
       IN  /\ message' = IF r.exc = NoExc THEN r.message ELSE message
           /\ last' = Last("CommandMessage", "", r.exc, PyNone, <<>>, <<>>)
    /\ UNCHANGED <<module, handlers, _cmd_objs, _cmd_names, input, listings>>

AddCommand(sys, function, syntax, aliases, desc) ==
    /\ module = "command_system"
    /\ Len(handlers) < MaxObjs
    /\ LET r == add_command(Heap, sys, function, syntax, aliases, desc)
       IN  /\ Store(r.heap)
           /\ last' = Last("add_command", "", r.exc, r.value, <<>>, <<>>)
    /\ UNCHANGED <<module, message, input, listings>>

LeeSpork_AddCommand(sys, syntax, function, description) ==
    /\ module = "LeeSpork_Command_System"
    /\ Len(handlers) < MaxObjs
    /\ LET r == LeeSpork_add_command(Heap, sys, syntax, function, description)
       IN  /\ Store(r.heap)
           /\ last' = Last("add_command", "", r.exc, r.value, <<>>, <<>>)
    /\ UNCHANGED <<module, message, input, listings>>

\* obj.add_alias(alias) on a handler the program has, in either version
AddAlias(cmd_obj, alias) ==
    /\ cmd_obj \in DOMAIN handlers
    /\ LET r == add_alias(Heap, cmd_obj, alias)
       IN  /\ Store(r.heap)
           /\ last' = Last("add_alias", "", r.exc, r.value, <<>>, <<>>)
    /\ UNCHANGED <<module, message, input, listings>>

AddAliases(cmd_obj, aliases) ==
    /\ module = "LeeSpork_Command_System"
    /\ cmd_obj \in DOMAIN handlers
    /\ LET r == add_aliases(Heap, cmd_obj, aliases)
       IN  /\ Store(r.heap)
           /\ last' = Last("add_aliases", "", r.exc, r.value, <<>>, <<>>)
    /\ UNCHANGED <<module, message, input, listings>>

RunCommand(sys) ==
    /\ module = "command_system"
    /\ message # NoMessage
    /\ LET r == run_command(Heap, sys, message)
       IN  /\ message' = r.message
           /\ last' = [Last("run_command", sys, r.exc, r.value, r.invoked, r.replies)
                          EXCEPT !.events = r.events]
    /\ UNCHANGED <<module, handlers, _cmd_objs, _cmd_names, input, listings>>

LeeSpork_RunCommand(sys) ==
    /\ module = "LeeSpork_Command_System"
    /\ message # NoMessage
    /\ LET r == LeeSpork_run_command(Heap, sys, message)
       IN  /\ message' = r.message
           /\ last' = [Last("run_command", sys, r.exc, r.value, r.invoked, r.replies)
                          EXCEPT !.events = r.events]
    /\ UNCHANGED <<module, handlers, _cmd_objs, _cmd_names, input, listings>>

GetCommand(sys, command_name_or_alias) ==
    /\ module = "LeeSpork_Command_System"
    /\ LET r == get_command(Heap, sys, command_name_or_alias)
       IN  /\ Store(r.heap)
           /\ last' = Last("get_command", sys, r.exc, r.value, <<>>, <<>>)
    /\ UNCHANGED <<module, message, input, listings>>

\* all_cmds = my_cmd_sys.get_all_command_names()
GetAllCommandNames(sys, var) ==
    /\ module = "LeeSpork_Command_System"
    /\ LET r == get_all_command_names(Heap, sys)
       IN  /\ Store(r.heap)
           /\ listings' = [listings EXCEPT ![var] = r.value]
           /\ last' = Last("get_all_command_names", sys, r.exc, PyNone, <<>>, <<>>)
    /\ UNCHANGED <<module, message, input>>

\* the caller adds to a set it was given
SetAdd(var, x) ==
    /\ listings[var] # NoListing
    /\ LET r == set_add(Heap, listings[var], x)
       IN  /\ Store(r.heap)
           /\ listings' = [listings EXCEPT ![var] = r.listing]
           /\ last' = Last("set.add", "", NoExc, PyNone, <<>>, <<>>)
    /\ UNCHANGED <<module, message, input>>

\* the caller removes from a set it was given
SetDiscard(var, x) ==
    /\ listings[var] # NoListing
    /\ LET r == set_discard(Heap, listings[var], x)
       IN  /\ Store(r.heap)
           /\ listings' = [listings EXCEPT ![var] = r.listing]
           /\ last' = Last("set.discard", "", NoExc, PyNone, <<>>, <<>>)
    /\ UNCHANGED <<module, message, input>>

Next ==
    \/ \E text \in MessageTexts : NewMessage(text)
    \/ \E text \in MessageTexts : LeeSpork_NewMessage(text)
    \/ \E sys \in Systems, cmd \in Commands,
          aliases \in SeqsUpTo(AliasTokens, MaxAliases), desc \in Descriptions :
            AddCommand(sys, cmd[1], cmd[2], aliases, desc)
    \/ \E sys \in LeeSpork_Systems, cmd \in LeeSpork_Commands, description \in Descriptions :
            LeeSpork_AddCommand(sys, cmd[2], cmd[1], description)
    \/ \E cmd_obj \in 1..MaxObjs, alias \in AliasTokens : AddAlias(cmd_obj, alias)
    \/ \E cmd_obj \in 1..MaxObjs, aliases \in SeqsUpTo(AliasTokens, MaxAliases) :
            AddAliases(cmd_obj, aliases)
    \/ \E sys \in Systems : RunCommand(sys)
    \/ \E sys \in LeeSpork_Systems : LeeSpork_RunCommand(sys)
    \/ \E sys \in LeeSpork_Systems, key \in AliasTokens : GetCommand(sys, key)

Spec == Init /\ [][Next]_vars

\* A program that sets up its systems, as the start of the example does:
\* the registrations alone, which are the calls that change a table.
RegistrationNext ==
    \/ \E sys \in Systems, cmd \in Commands,
          aliases \in SeqsUpTo(AliasTokens, MaxAliases), desc \in Descriptions :
            AddCommand(sys, cmd[1], cmd[2], aliases, desc)
    \/ \E sys \in LeeSpork_Systems, cmd \in LeeSpork_Commands, description \in Descriptions :
            LeeSpork_AddCommand(sys, cmd[2], cmd[1], description)
    \/ \E cmd_obj \in 1..MaxObjs, alias \in AliasTokens : AddAlias(cmd_obj, alias)
    \/ \E cmd_obj \in 1..MaxObjs, aliases \in SeqsUpTo(AliasTokens, MaxAliases) :
            AddAliases(cmd_obj, aliases)

RegistrationSpec == Init /\ [][RegistrationNext]_vars

\* A program that reads a text, makes a message of it and asks the message
\* for its parts.
MessageInit ==
    /\ module \in Modules
    /\ handlers = <<>>
    /\ _cmd_objs = [s \in Systems |-> <<>>]
    /\ _cmd_names = [s \in Systems |-> {}]
    /\ message = NoMessage
    /\ input \in [text : Texts, params : ParamDicts]
    /\ listings = [v \in ListingVars |-> NoListing]
    /\ last = Last("init", "", NoExc, PyNone, <<>>, <<>>)

\* CommandMessage(command_text, **params); the 2020 class takes the text only
Construct ==
    /\ LET r == IF module = "command_system"
                THEN CommandMessage(input.text, input.params)
                ELSE LeeSpork_CommandMessage(input.text)
       IN  /\ message' = IF r.exc = NoExc THEN r.message ELSE message
           /\ last' = Last("CommandMessage", "", r.exc, PyNone, <<>>, <<>>)
    /\ UNCHANGED <<module, handlers, _cmd_objs, _cmd_names, input, listings>>

\* the getters of the message
GetText ==
    /\ message # NoMessage
    /\ last' = Last("get_text", "", NoExc, Value("str", get_text(message), 0), <<>>, <<>>)
    /\ UNCHANGED <<module, handlers, _cmd_objs, _cmd_names, message, input, listings>>

GetCmdName ==
    /\ message # NoMessage
    /\ last' = Last("get_cmd_name", "", NoExc, Value("str", get_cmd_name(message), 0), <<>>, <<>>)
    /\ UNCHANGED <<module, handlers, _cmd_objs, _cmd_names, message, input, listings>>

GetArgsList ==
    /\ message # NoMessage
    /\ last' = Last("get_args_list", "", NoExc, Value("str", get_args_list(message), 0), <<>>, <<>>)
    /\ UNCHANGED <<module, handlers, _cmd_objs, _cmd_names, message, input, listings>>

GetArgsStr ==
    /\ message # NoMessage
    /\ last' = Last("get_args_str", "", NoExc, Value("str", get_args_str(message), 0), <<>>, <<>>)
    /\ UNCHANGED <<module, handlers, _cmd_objs, _cmd_names, message, input, listings>>

GetParam(param, default) ==
    /\ module = "command_system"
    /\ message # NoMessage
    /\ LET r == get_param(message, param, default)
       IN  last' = Last("get_param", "", r.exc, r.value, <<>>, <<>>)
    /\ UNCHANGED <<module, handlers, _cmd_objs, _cmd_names, message, input, listings>>

MessageNext ==
    \/ Construct
    \/ GetText
    \/ GetCmdName
    \/ GetArgsList
    \/ GetArgsStr
    \/ \E param \in ParamKeys, default \in Defaults : GetParam(param, default)

MessageSpec == MessageInit /\ [][MessageNext]_vars

\* A program of the 2020 version that registers commands and lists them, as
\* cmd_list_commands does, and changes the sets it was given.
ListingInit ==
    /\ Init
    /\ module = "LeeSpork_Command_System"

ListingNext ==
    \/ \E text \in MessageTexts : LeeSpork_NewMessage(text)
    \/ \E sys \in LeeSpork_Systems, cmd \in LeeSpork_Commands, description \in Descriptions :
            LeeSpork_AddCommand(sys, cmd[2], cmd[1], description)
    \/ \E cmd_obj \in 1..MaxObjs, alias \in AliasTokens : AddAlias(cmd_obj, alias)
    \/ \E sys \in LeeSpork_Systems : LeeSpork_RunCommand(sys)
    \/ \E sys \in LeeSpork_Systems, var \in ListingVars : GetAllCommandNames(sys, var)
    \/ \E var \in ListingVars : SetAdd(var, TokC)
    \/ \E var \in ListingVars : SetDiscard(var, TokA)

ListingSpec == ListingInit /\ [][ListingNext]_vars

\* ------------------------------------------------------------------ claims
\* what the claims read off a state
Table(sys) == _cmd_objs[sys]
Keys(sys) == DOMAIN _cmd_objs[sys]
Dispatched == last.op = "run_command"
SeqSet(q) == {q[i] : i \in DOMAIN q}

\* C1: a dispatch of a message whose command token is no key of the table
\* fails with UnknownCommandError carrying that token; no handler is invoked
\* and the registry itself replies nothing.
C1_UnknownCommandIsRaised ==
    (Dispatched /\ get_cmd_name(message) \notin Keys(last.sys)) =>
        /\ last.exc = Exc("UnknownCommandError", get_cmd_name(message))
        /\ last.invoked = <<>>
        /\ \A i \in DOMAIN last.replies : last.replies[i].by # "registry"

\* C1, for command_system.py alone: the typed error is what its run_command
\* raises.
C1_command_system ==
    module = "command_system" => C1_UnknownCommandIsRaised

C1_Witness ==
    /\ module = "command_system"
    /\ Dispatched
    /\ get_cmd_name(message) \notin Keys(last.sys)
    /\ Keys(last.sys) # {}

\* C2: a dispatch of a message whose command token is a key of the table
\* invokes the function of the handler the key maps to, once, with that
\* message, and returns what the function returned; the canonical name of that
\* handler resolves to the same function.
C2_DispatchInvokesHandler ==
    (Dispatched /\ get_cmd_name(message) \in Keys(last.sys)) =>
        LET obj == Table(last.sys)[get_cmd_name(message)]
            c == Call(handlers[obj].function, message, Heap)
        IN  /\ last.invoked = <<[function |-> handlers[obj].function,
                                 message |-> message]>>
            /\ c.exc = NoExc => (last.exc = NoExc /\ last.value = c.value)
            /\ handlers[obj].name \in Keys(last.sys)
            /\ handlers[Table(last.sys)[handlers[obj].name]].function
                   = handlers[obj].function

\* a dispatch through an alias that returned the result of f
C2_Witness ==
    /\ Dispatched
    /\ get_cmd_name(message) \in Keys(last.sys)
    /\ handlers[Table(last.sys)[get_cmd_name(message)]].name # get_cmd_name(message)
    /\ last.value = Value("result", "f", 0)

\* C3: every handler's alias list holds exactly the keys of its system's table
\* that map to the handler.
C3_AliasListMatchesTable ==
    \A obj \in DOMAIN handlers :
        SeqSet(handlers[obj].aliases)
            = {k \in Keys(handlers[obj].parent_system) :
                   Table(handlers[obj].parent_system)[k] = obj}

\* C3, for command_system.py alone, which has no add_aliases
C3_command_system ==
    module = "command_system" => C3_AliasListMatchesTable

\* the calls an add_command step may be, in either version
CommandName(syntax) == split(syntax)[1]
AllCommands == Commands \cup LeeSpork_Commands
AliasLists == SeqsUpTo(AliasTokens, MaxAliases)
AddCommandStep(sys, cmd, aliases) ==
    \/ \E desc \in Descriptions : AddCommand(sys, cmd[1], cmd[2], aliases, desc)
    \/ /\ aliases = <<>>
       /\ \E desc \in Descriptions : LeeSpork_AddCommand(sys, cmd[2], cmd[1], desc)

\* the first alias of the list that is a key already when its turn comes; 0
\* when there is none
FirstCollision(sys, name, aliases) ==
    LET hit == {i \in DOMAIN aliases :
                   aliases[i] \in Keys(sys) \cup {name}
                                  \cup {aliases[j] : j \in 1..(i - 1)}}
    IN  IF hit = {} THEN 0 ELSE CHOOSE i \in hit : \A j \in hit : i <= j

\* C4: adding a token that is a key of the table already, with add_alias or as
\* the name or an alias of add_command, fails with CommandAlreadyExistsError
\* and with no other kind of error.
C4_CollisionIsNameCollision ==
    [][/\ last'.op = "add_alias" =>
            \A cmd_obj \in 1..MaxObjs, alias \in AliasTokens :
                (/\ AddAlias(cmd_obj, alias)
                 /\ alias \in Keys(handlers[cmd_obj].parent_system))
                    => last'.exc.type = "CommandAlreadyExistsError"
       /\ last'.op = "add_command" =>
            \A sys \in Systems, cmd \in AllCommands, aliases \in AliasLists :
                (/\ AddCommandStep(sys, cmd, aliases)
                 /\ split(cmd[2]) # <<>>
                 /\ \/ CommandName(cmd[2]) \in Keys(sys)
                    \/ FirstCollision(sys, CommandName(cmd[2]), aliases) # 0)
                    => last'.exc.type = "CommandAlreadyExistsError"
      ]_vars

\* C4, as far as the code goes: the colliding call fails and changes nothing
\* when it is add_alias
C4_CollisionFails ==
    [][last'.op = "add_alias" =>
            \A cmd_obj \in 1..MaxObjs, alias \in AliasTokens :
                (/\ AddAlias(cmd_obj, alias)
                 /\ alias \in Keys(handlers[cmd_obj].parent_system))
                    => /\ last'.exc # NoExc
                       /\ UNCHANGED <<handlers, _cmd_objs, _cmd_names>>
      ]_vars

\* what add_command of the imported version does in the current state
AddCommandResult(sys, cmd, aliases, desc) ==
    IF module = "command_system"
    THEN add_command(Heap, sys, cmd[1], cmd[2], aliases, desc)
    ELSE LeeSpork_add_command(Heap, sys, cmd[2], cmd[1], desc)
CommandsOfModule == IF module = "command_system" THEN Commands ELSE LeeSpork_Commands
AliasListsOfModule == IF module = "command_system" THEN AliasLists ELSE {<<>>}

\* C5: add_command with a free name and free, distinct aliases returns a new
\* handler named by the first token of the syntax, puts the name into
\* _cmd_names, maps the name and every alias to the handler, and adds or
\* changes no other key.
C5_AddCommandRegisters ==
    \A sys \in Systems, cmd \in CommandsOfModule, aliases \in AliasListsOfModule,
       desc \in Descriptions :
        (/\ split(cmd[2]) # <<>>
         /\ CommandName(cmd[2]) \notin Keys(sys)
         /\ FirstCollision(sys, CommandName(cmd[2]), aliases) = 0)
        =>
        LET name == CommandName(cmd[2])
            r == AddCommandResult(sys, cmd, aliases, desc)
            obj == r.value.obj
        IN  /\ r.exc = NoExc
            /\ r.value.tag = "handler"
            /\ obj \in DOMAIN r.heap.handlers /\ obj \notin DOMAIN handlers
            /\ r.heap.handlers[obj].name = name
            /\ r.heap.handlers[obj].function = cmd[1]
            /\ r.heap._cmd_names[sys] = _cmd_names[sys] \cup {name}
            /\ DOMAIN r.heap._cmd_objs[sys] = Keys(sys) \cup {name} \cup SeqSet(aliases)
            /\ \A k \in {name} \cup SeqSet(aliases) : r.heap._cmd_objs[sys][k] = obj
            /\ \A k \in Keys(sys) : r.heap._cmd_objs[sys][k] = Table(sys)[k]
            /\ \A other \in Systems \ {sys} :
                   /\ r.heap._cmd_objs[other] = _cmd_objs[other]
                   /\ r.heap._cmd_names[other] = _cmd_names[other]

\* an add_command that returned a handler with its name and an alias, in a
\* system that had a command already
C5_Witness ==
    /\ last.op = "add_command"
    /\ last.exc = NoExc
    /\ Len(handlers[last.value.obj].aliases) = 2
    /\ \E k \in Keys(handlers[last.value.obj].parent_system) :
           Table(handlers[last.value.obj].parent_system)[k] # last.value.obj

\* C6: add_command with a free name and an alias list whose i-th entry is a key
\* already fails with CommandAlreadyExistsError and is not rolled back: the
\* name and the aliases before the i-th map to the new handler, the i-th and
\* the later ones are not added, and every older key maps to what it mapped to.
C6_PartialState(sys, name, aliases, i) ==
    LET obj == Len(handlers) + 1
        added == {name} \cup {aliases[j] : j \in 1..(i - 1)}
    IN  /\ last'.exc # NoExc
        /\ obj \in DOMAIN handlers'
        /\ DOMAIN _cmd_objs'[sys] = Keys(sys) \cup added
        /\ \A k \in added : _cmd_objs'[sys][k] = obj
        /\ \A k \in Keys(sys) : _cmd_objs'[sys][k] = Table(sys)[k]
        /\ \A other \in Systems \ {sys} : _cmd_objs'[other] = _cmd_objs[other]

C6_PartialCall(sys, cmd, aliases) ==
    /\ split(cmd[2]) # <<>>
    /\ CommandName(cmd[2]) \notin Keys(sys)
    /\ FirstCollision(sys, CommandName(cmd[2]), aliases) # 0
    /\ AddCommandStep(sys, cmd, aliases)

C6_PartialRegistrationIsNameCollision ==
    [][last'.op = "add_command" =>
        \A sys \in Systems, cmd \in AllCommands, aliases \in AliasLists :
            C6_PartialCall(sys, cmd, aliases) =>
                /\ last'.exc.type = "CommandAlreadyExistsError"
                /\ C6_PartialState(sys, CommandName(cmd[2]), aliases,
                                   FirstCollision(sys, CommandName(cmd[2]), aliases))
      ]_vars

\* C6 without the kind of the error: what add_command leaves behind when an
\* alias collides, in every state the program reaches
C6_PartialRegistrationIsKept ==
    \A sys \in Systems, cmd \in CommandsOfModule, aliases \in AliasListsOfModule,
       desc \in Descriptions :
        (/\ split(cmd[2]) # <<>>
         /\ CommandName(cmd[2]) \notin Keys(sys)
         /\ FirstCollision(sys, CommandName(cmd[2]), aliases) # 0)
        =>
        LET name == CommandName(cmd[2])
            i == FirstCollision(sys, name, aliases)
            r == AddCommandResult(sys, cmd, aliases, desc)
            obj == Len(handlers) + 1
            added == {name} \cup {aliases[j] : j \in 1..(i - 1)}
        IN  /\ r.exc # NoExc
            /\ obj \in DOMAIN r.heap.handlers
            /\ DOMAIN r.heap._cmd_objs[sys] = Keys(sys) \cup added
            /\ \A k \in added : r.heap._cmd_objs[sys][k] = obj
            /\ \A k \in Keys(sys) : r.heap._cmd_objs[sys][k] = Table(sys)[k]
            /\ \A other \in Systems \ {sys} : r.heap._cmd_objs[other] = _cmd_objs[other]

\* C7: _cmd_names holds keys of the table only, each resolving to a handler
\* whose name it is; a token that was registered as an alias only is not in it.
C7_NamesAreCanonicalKeys ==
    \A sys \in Systems :
        /\ _cmd_names[sys] \subseteq Keys(sys)
        /\ \A n \in _cmd_names[sys] :
               /\ handlers[Table(sys)[n]].name = n
               /\ handlers[Table(sys)[n]].parent_system = sys

\* a system that lists a command and has an alias for it besides
C7_Witness ==
    \E sys \in Systems :
        /\ _cmd_names[sys] # {}
        /\ \E k \in Keys(sys) : k \notin _cmd_names[sys] /\ handlers[Table(sys)[k]].name # k

\* C8: after a dispatch by a system the message's get_last_command_system()
\* is that system, also when another system dispatched it before; for a
\* message no system has dispatched it is None.
C8_LastRegistryIsDispatcher ==
    /\ Dispatched => get_last_command_system(message) = last.sys
    /\ (last.op = "CommandMessage" /\ last.exc = NoExc)
           => get_last_command_system(message) = "None"

\* C8, for command_system.py alone; the 2020 version keeps no such field
C8_command_system ==
    module = "command_system" => C8_LastRegistryIsDispatcher

\* C9: an exception the handler raises leaves run_command as it is: it is not
\* swallowed, not answered with a reply of the registry, and not turned into
\* an UnknownCommandError for the dispatched token.
C9_HandlerErrorPropagates ==
    (Dispatched /\ last.invoked # <<>>) =>
        LET c == Call(last.invoked[1].function, last.invoked[1].message, Heap)
        IN  c.exc # NoExc =>
                /\ last.exc = c.exc
                /\ last.exc # Exc("UnknownCommandError", get_cmd_name(message))
                /\ \A i \in DOMAIN last.replies : last.replies[i].by # "registry"

\* a handler raised KeyError, the error of a missing key, and the dispatch
\* failed with it
C9_Witness ==
    /\ Dispatched
    /\ last.invoked # <<>>
    /\ last.invoked[1].function = "raises_KeyError"
    /\ last.exc = Exc("KeyError", <<"k">>)

\* a handler raised UnknownCommandError for another name than the dispatched
\* one, and the dispatch failed with it
C9_WitnessUnknownCommand ==
    /\ Dispatched
    /\ last.invoked # <<>>
    /\ last.exc.type = "UnknownCommandError"
    /\ last.exc.arg # get_cmd_name(message)

\* C10: get_command returns the handler the token maps to when the token is a
\* key, fails with an UnknownCommandError carrying the token when it is not,
\* and leaves the registry as it is.
C10_ResolveRaisesUnknownCommand ==
    [][last'.op = "get_command" =>
        \A sys \in Systems, key \in AliasTokens :
            GetCommand(sys, key) =>
                /\ key \in Keys(sys) =>
                       /\ last'.exc = NoExc
                       /\ last'.value = Value("handler", "", Table(sys)[key])
                /\ key \notin Keys(sys) =>
                       last'.exc = Exc("UnknownCommandError", key)
                /\ UNCHANGED <<handlers, _cmd_objs, _cmd_names>>
      ]_vars

\* C10, as far as the code goes: the failure of get_command is the KeyError of
\* the dict
C10_ResolveRaisesKeyError ==
    [][last'.op = "get_command" =>
        \A sys \in Systems, key \in AliasTokens :
            GetCommand(sys, key) =>
                /\ key \in Keys(sys) =>
                       /\ last'.exc = NoExc
                       /\ last'.value = Value("handler", "", Table(sys)[key])
                /\ key \notin Keys(sys) => last'.exc = Exc("KeyError", key)
                /\ UNCHANGED <<handlers, _cmd_objs, _cmd_names>>
      ]_vars

\* the names of the commands registered in a system: of the handlers their own
\* name resolves to
RegisteredNames(sys) ==
    {handlers[obj].name : obj \in {o \in DOMAIN handlers :
        /\ handlers[o].parent_system = sys
        /\ handlers[o].name \in Keys(sys)
        /\ Table(sys)[handlers[o].name] = o}}
ListingItems(var) == set_items(Heap, listings[var])

\* C11: get_all_command_names returns the names of the commands registered so
\* far, without the aliases, in a set of its own: adding to or removing from a
\* returned set changes neither _cmds, nor the table, nor the set another call
\* returned.
C11_ListingIsACopy ==
    [][/\ last'.op = "get_all_command_names" =>
            \A sys \in Systems, var \in ListingVars :
                GetAllCommandNames(sys, var) =>
                    /\ ListingItems(var)' = RegisteredNames(sys)
                    /\ ListingItems(var)' = _cmd_names[sys]
                    /\ UNCHANGED <<handlers, _cmd_objs, _cmd_names>>
                    /\ \A other \in ListingVars \ {var} :
                           ListingItems(other)' = ListingItems(other)
       /\ last'.op \in {"set.add", "set.discard"} =>
            /\ UNCHANGED <<handlers, _cmd_objs, _cmd_names>>
            /\ \E var \in ListingVars :
                   \A other \in ListingVars \ {var} :
                       ListingItems(other)' = ListingItems(other)
      ]_vars

\* a caller holds two listings of a system that has an alias; it changed one
\* of them, which now differs from the other and from the names of the system
C11_Witness ==
    /\ last.op \in {"set.add", "set.discard"}
    /\ \A var \in ListingVars : listings[var] # NoListing
    /\ ListingItems("all_cmds") # ListingItems("output")
    /\ \E sys \in Systems :
           /\ _cmd_names[sys] # {}
           /\ Keys(sys) # _cmd_names[sys]
           /\ ListingItems("output") = _cmd_names[sys]
           /\ ListingItems("all_cmds") # _cmd_names[sys]

\* C11 in command_system.py, which has no get_all_command_names: the help
\* command lists the set _cmd_names itself
C11_command_system ==
    (Dispatched /\ last.replies # <<>> /\ last.replies[1].kind = "Commands:")
        => last.replies[1].arg = _cmd_names[last.sys]

\* the words of a text, by position: a word starts where a character that is
\* no whitespace follows whitespace or the start, and runs up to the next
\* whitespace or the end
WordStarts(text) ==
    {i \in 1..Len(text) : ~IsSpace(text[i]) /\ (i = 1 \/ IsSpace(text[i - 1]))}
WordEnd(text, i) ==
    CHOOSE j \in i..Len(text) :
        /\ \A k \in i..j : ~IsSpace(text[k])
        /\ j = Len(text) \/ IsSpace(text[j + 1])
Words(text) ==
    [n \in 1..Cardinality(WordStarts(text)) |->
        LET i == CHOOSE i \in WordStarts(text) :
                     Cardinality({j \in WordStarts(text) : j <= i}) = n
        IN  SubSeq(text, i, WordEnd(text, i))]
FirstWordStart(text) == CHOOSE i \in WordStarts(text) : \A j \in WordStarts(text) : i <= j

\* C12: for a text with a word in it, also one that starts with whitespace or
\* has several whitespace characters between its words, get_args_str returns
\* the part of the text after the command word and one whitespace character,
\* and the empty string when there is no argument word.
C12_ArgsStrFollowsCommandToken ==
    last.op = "get_args_str" =>
        LET text == message.text
            after == WordEnd(text, FirstWordStart(text)) + 2
        IN  /\ last.value.of = SubSeq(text, after, Len(text))
            /\ Len(Words(text)) = 1 => last.value.of = <<>>

\* C12 for the texts that start with their command word, as far as the first
\* half goes
C12_ArgsStrWithoutLeadingWhitespace ==
    (last.op = "get_args_str" /\ ~IsSpace(message.text[1])) =>
        LET text == message.text
            after == WordEnd(text, FirstWordStart(text)) + 2
        IN  last.value.of = SubSeq(text, after, Len(text))

\* C13: get_param(param, default) returns the value the message was made with
\* for param when there is one and default when there is none; it does not
\* fail.
C13_GetParamReturnsValueOrDefault ==
    (module = "command_system" /\ message # NoMessage) =>
        \A param \in ParamKeys, default \in Defaults :
            LET r == get_param(message, param, default)
            IN  /\ r.exc = NoExc
                /\ param \in DOMAIN input.params
                       => r.value = Value("param", input.params[param], 0)
                /\ param \notin DOMAIN input.params
                       => r.value = Value("param", default, 0)

\* C13, as far as the code goes: get_param raises TypeError whatever it is
\* called with
C13_GetParamRaisesTypeError ==
    last.op = "get_param" => last.exc.type = "TypeError"

\* C14: CommandMessage(text) raises ValueError exactly when the text is empty
\* or all whitespace; for every other text cmd_name is its first word, which is
\* not empty, args_list is the other words in their order, and get_text()
\* returns the text as it was.
C14_ConstructionSplitsText ==
    last.op = "CommandMessage" =>
        /\ last.exc \in {NoExc, Exc("ValueError", <<>>)}
        /\ last.exc = Exc("ValueError", <<>>)
               <=> \A i \in 1..Len(input.text) : IsSpace(input.text[i])
        /\ last.exc = NoExc =>
               /\ get_cmd_name(message) # <<>>
               /\ get_cmd_name(message) = Words(input.text)[1]
               /\ get_args_list(message) = Tail(Words(input.text))
               /\ get_text(message) = input.text

\* a message made of a text that starts with whitespace and has two
\* whitespace characters before its argument word
C14_Witness ==
    /\ last.op = "CommandMessage"
    /\ last.exc = NoExc
    /\ IsSpace(input.text[1])
    /\ get_args_list(message) = <<TokB>>
    /\ Len(input.text) = 5

\* a message with two argument words
C14_WitnessTwoArguments ==
    /\ last.op = "CommandMessage"
    /\ last.exc = NoExc
    /\ Len(get_args_list(message)) = 2

\* a text of whitespace only, refused
C14_WitnessRefused ==
    /\ last.op = "CommandMessage"
    /\ last.exc = Exc("ValueError", <<>>)
    /\ Len(input.text) > 1

\* C15: add_command hands the handler it created to its caller whatever
\* becomes of the aliases: also when an alias collides, the call returns the
\* new handler.
C15_AddCommandReturnsHandlerRegardless ==
    [][(last'.op = "add_command" /\ Len(handlers') = Len(handlers) + 1)
           => last'.value = Value("handler", "", Len(handlers'))
      ]_vars

\* C15, as far as the code goes: the call returns the handler when it raised
\* nothing, and returns nothing when it raised
C15_AddCommandReturnsHandlerOrRaises ==
    [][(last'.op = "add_command" /\ Len(handlers') = Len(handlers) + 1)
           => \/ last'.exc = NoExc /\ last'.value = Value("handler", "", Len(handlers'))
              \/ last'.exc # NoExc /\ last'.value = PyNone
      ]_vars

\* the events of the last call that wrote the message's last_command_system,
\* and those that called the handler
EventsOf(ev) == {i \in DOMAIN last.events : last.events[i].ev = ev}

\* C16: run_command of command_system.py writes the message's
\* last_command_system once, before it calls the handler and not after; the
\* handler finds get_last_command_system() to be the dispatching system.
C16_LastSystemIsSetOnceBeforeTheCall ==
    (Dispatched /\ module = "command_system") =>
        /\ Cardinality(EventsOf("set_last_command_system")) = 1
        /\ \A i \in EventsOf("set_last_command_system") :
               /\ last.events[i].arg = last.sys
               /\ \A j \in EventsOf("call") : i < j
        /\ \A n \in DOMAIN last.invoked :
               get_last_command_system(last.invoked[n].message) = last.sys

\* the help command, dispatched by S2 and listing the commands of S2, which
\* are not those of S1
C16_Witness ==
    /\ Dispatched
    /\ last.sys = "S2"
    /\ last.invoked # <<>>
    /\ last.invoked[1].function = "example_help_command_function"
    /\ last.replies # <<>>
    /\ _cmd_names["S1"] # _cmd_names["S2"]
    /\ last.replies[1].arg = _cmd_names["S2"]

\* C17: a call of run_command, whatever its outcome, changes the message's
\* last_command_system and nothing else: not the table, the command names or
\* an alias list, and not the message's text, cmd_name, args_list or params.
C17_DispatchChangesLastSystemOnly ==
    [][last'.op = "run_command" =>
        /\ UNCHANGED <<handlers, _cmd_objs, _cmd_names>>
        /\ DOMAIN message' = DOMAIN message
        /\ \A field \in DOMAIN message \ {"last_command_system"} :
               message'[field] = message[field]
      ]_vars

\* a dispatch whose handler raised, in a system with a command and an alias
C17_Witness ==
    /\ Dispatched
    /\ last.exc # NoExc
    /\ last.invoked # <<>>
    /\ \E k \in Keys(last.sys) : k \notin _cmd_names[last.sys]

\* C18: add_command with a name that is a key of the table already fails and
\* leaves the system as it was: the name maps to the handler it mapped to,
\* _cmd_names is the same, none of the aliases of the call is added, and no
\* key maps to the handler the call created.
C18_DuplicateNameChangesNothing ==
    \A sys \in Systems, cmd \in CommandsOfModule, aliases \in AliasListsOfModule,
       desc \in Descriptions :
        (split(cmd[2]) # <<>> /\ CommandName(cmd[2]) \in Keys(sys)) =>
            LET r == AddCommandResult(sys, cmd, aliases, desc)
            IN  /\ r.exc # NoExc
                /\ r.heap._cmd_objs = _cmd_objs
                /\ r.heap._cmd_names = _cmd_names
                /\ \A s \in Systems :
                       \A k \in DOMAIN r.heap._cmd_objs[s] :
                           r.heap._cmd_objs[s][k] \in DOMAIN handlers
                /\ \A obj \in DOMAIN handlers :
                       r.heap.handlers[obj] = handlers[obj]

\* an add_command that failed on its name: every handler there is has its
\* name listed, so none is left of a call that failed on an alias
C18_Witness ==
    /\ last.op = "add_command"
    /\ last.exc # NoExc
    /\ handlers # <<>>
    /\ \A obj \in DOMAIN handlers :
           handlers[obj].name \in _cmd_names[handlers[obj].parent_system]
    /\ \E sys \in Systems : Keys(sys) # _cmd_names[sys]

\* C19: a key of a table maps to the same handler in every later state, and a
\* name in _cmd_names stays there, whatever call is made.
C19_RegistrationsArePermanent ==
    [][\A sys \in Systems :
           /\ \A k \in Keys(sys) :
                  /\ k \in DOMAIN _cmd_objs'[sys]
                  /\ _cmd_objs'[sys][k] = Table(sys)[k]
                  /\ handlers'[Table(sys)[k]].name = handlers[Table(sys)[k]].name
                  /\ handlers'[Table(sys)[k]].function = handlers[Table(sys)[k]].function
           /\ _cmd_names[sys] \subseteq _cmd_names'[sys]
      ]_vars

\* a system with keys of two handlers, after a registration that failed
C19_Witness ==
    /\ last.op \in {"add_command", "add_alias", "add_aliases"}
    /\ last.exc # NoExc
    /\ \E sys \in Systems :
           \E k1 \in Keys(sys), k2 \in Keys(sys) : Table(sys)[k1] # Table(sys)[k2]

\* C20: every key of a system's table maps to a handler that system created,
\* and a registration made through one system changes the table and the names
\* of no other system.
C20_HandlersBelongToTheirSystem ==
    \A sys \in Systems :
        /\ \A k \in Keys(sys) : handlers[Table(sys)[k]].parent_system = sys
        /\ \A cmd \in CommandsOfModule, aliases \in AliasListsOfModule,
              desc \in Descriptions, other \in Systems \ {sys} :
               LET r == AddCommandResult(sys, cmd, aliases, desc)
               IN  /\ r.heap._cmd_objs[other] = _cmd_objs[other]
                   /\ r.heap._cmd_names[other] = _cmd_names[other]
        /\ \A cmd_obj \in DOMAIN handlers, alias \in AliasTokens :
               handlers[cmd_obj].parent_system # sys =>
                   LET r == add_alias(Heap, cmd_obj, alias)
                   IN  /\ r.heap._cmd_objs[sys] = _cmd_objs[sys]
                       /\ r.heap._cmd_names[sys] = _cmd_names[sys]

\* two systems that each have a command of the same name, a handler of its own
\* each
C20_Witness ==
    /\ \E k \in Keys("S1") \cap Keys("S2") : Table("S1")[k] # Table("S2")[k]
    /\ \E k \in Keys("S1") : k \notin Keys("S2")

\* C21: every handler a key of a table maps to has its name in _cmd_names of
\* its system, also after an add_command that failed on an alias: what can be
\* dispatched is listed.
C21_DispatchableCommandsAreListed ==
    \A sys \in Systems :
        \A k \in Keys(sys) : handlers[Table(sys)[k]].name \in _cmd_names[sys]

\* C21 for LeeSpork_Command_System.py, whose add_command takes no aliases and
\* so cannot fail after the name is registered
C21_LeeSpork_Command_System ==
    module = "LeeSpork_Command_System" => C21_DispatchableCommandsAreListed

====
